---- MODULE Spec2Model ----
(***************************************************************************)
(* Model of src/app/yaml_editor.py: the persistence and versioning core of *)
(* the web YAML editor (change detection, backup, write-after-validate,    *)
(* restore, listing).                                                      *)
(*                                                                         *)
(* Texts, file names and paths are sequences of one-character strings, so  *)
(* that the string tests of the code ('..' in filename, endswith, sorted)  *)
(* and the text-mode newline handling of open() are computed, not assumed. *)
(* The file system is a function from absolute path to the bytes stored.   *)
(***************************************************************************)
EXTENDS Integers, Sequences, FiniteSets, TLC

VARIABLES
    files,   \* the file system: absolute path |-> stored bytes
    clock,   \* wall-clock second read by datetime.now()
    last,    \* the newest request and the response it got (history variable)
    undone,  \* the Save and the Restore of that Save's backup that the newest
             \* requests were, as a one-element sequence; <<>> otherwise
             \* (history variable)
    threads, \* the request-handling threads of app.run(threaded=True): for
             \* each, where it stands in save() and what it holds
    log      \* what the threads did last to the document and to each backup
             \* file (history variable)

vars == <<files, clock, last, undone, threads, log>>

\* ---------------------------------------------------------------- bounds

\* Seconds of wall-clock time the model lets pass (clock runs 0..MaxClock).
MaxClock == 2

\* Requests POST /save the two threads serve in all.
MaxSaves == 2

\* ------------------------------------------------------------- constants

\* The value that stands for Python's None and for a file that is not there.
None == <<"None">>

YAML_FILE_PATH ==
    <<"/", "d", "a", "t", "a", "/", "s", "e", "r", "v", "i", "c", "e", "s", ".", "y", "a", "m",
      "l">>

BACKUP_DIR ==
    <<"/", "d", "a", "t", "a", "/", "b", "a", "c", "k", "u", "p", "s">>

\* Directories of the container's volume: ensure_directories() makes the
\* document's directory and BACKUP_DIR at startup; the code makes no other.
Directories ==
    { <<>>,
      <<"/", "d", "a", "t", "a">>,
      BACKUP_DIR }

\* string.digits and string.ascii_lowercase, in code-point order
digits ==
    <<"0", "1", "2", "3", "4", "5", "6", "7", "8", "9">>

ascii_lowercase ==
    <<"a", "b", "c", "d", "e", "f", "g", "h", "i", "j", "k", "l", "m", "n", "o", "p", "q", "r",
      "s", "t", "u", "v", "w", "x", "y", "z">>

default_content ==
    <<"#", " ", "H", "o", "m", "e", "p", "a", "g", "e", " ", "S", "e", "r", "v", "i", "c", "e",
      "s", " ", "C", "o", "n", "f", "i", "g", "u", "r", "a", "t", "i", "o", "n", "\n", "#",
      " ", "T", "h", "i", "s", " ", "f", "i", "l", "e", " ", "d", "e", "f", "i", "n", "e", "s",
      " ", "t", "h", "e", " ", "s", "e", "r", "v", "i", "c", "e", "s", " ", "d", "i", "s", "p",
      "l", "a", "y", "e", "d", " ", "o", "n", " ", "y", "o", "u", "r", " ", "h", "o", "m", "e",
      "p", "a", "g", "e", " ", "d", "a", "s", "h", "b", "o", "a", "r", "d", "\n", "#", " ",
      "D", "o", "c", "u", "m", "e", "n", "t", "a", "t", "i", "o", "n", ":", " ", "h", "t", "t",
      "p", "s", ":", "/", "/", "g", "e", "t", "h", "o", "m", "e", "p", "a", "g", "e", ".", "d",
      "e", "v", "/", "e", "n", "/", "c", "o", "n", "f", "i", "g", "s", "/", "s", "e", "r", "v",
      "i", "c", "e", "s", "/", "\n", "\n", "#", " ", "E", "x", "a", "m", "p", "l", "e", " ",
      "s", "e", "r", "v", "i", "c", "e", " ", "c", "o", "n", "f", "i", "g", "u", "r", "a", "t",
      "i", "o", "n", ":", "\n", "#", " ", "-", " ", "G", "r", "o", "u", "p", " ", "N", "a",
      "m", "e", ":", "\n", "#", " ", " ", " ", " ", " ", "-", " ", "S", "e", "r", "v", "i",
      "c", "e", " ", "N", "a", "m", "e", ":", "\n", "#", " ", " ", " ", " ", " ", " ", " ",
      " ", " ", "h", "r", "e", "f", ":", " ", "h", "t", "t", "p", ":", "/", "/", "l", "o", "c",
      "a", "l", "h", "o", "s", "t", ":", "8", "0", "8", "0", "\n", "#", " ", " ", " ", " ",
      " ", " ", " ", " ", " ", "d", "e", "s", "c", "r", "i", "p", "t", "i", "o", "n", ":", " ",
      "S", "e", "r", "v", "i", "c", "e", " ", "d", "e", "s", "c", "r", "i", "p", "t", "i", "o",
      "n", "\n", "#", " ", " ", " ", " ", " ", " ", " ", " ", " ", "i", "c", "o", "n", ":",
      " ", "s", "e", "r", "v", "i", "c", "e", "-", "i", "c", "o", "n", "\n", "\n", "-", " ",
      "D", "e", "v", "e", "l", "o", "p", "m", "e", "n", "t", ":", "\n", " ", " ", " ", " ",
      "-", " ", "Y", "A", "M", "L", " ", "E", "d", "i", "t", "o", "r", ":", "\n", " ", " ",
      " ", " ", " ", " ", " ", " ", "h", "r", "e", "f", ":", " ", "h", "t", "t", "p", ":", "/",
      "/", "l", "o", "c", "a", "l", "h", "o", "s", "t", ":", "8", "0", "8", "0", "\n", " ",
      " ", " ", " ", " ", " ", " ", " ", "d", "e", "s", "c", "r", "i", "p", "t", "i", "o", "n",
      ":", " ", "E", "d", "i", "t", " ", "s", "e", "r", "v", "i", "c", "e", "s", " ", "c", "o",
      "n", "f", "i", "g", "u", "r", "a", "t", "i", "o", "n", "\n", " ", " ", " ", " ", " ",
      " ", " ", " ", "i", "c", "o", "n", ":", " ", "m", "d", "i", "-", "p", "e", "n", "c", "i",
      "l", "\n", "\n", "#", " ", "A", "d", "d", " ", "y", "o", "u", "r", " ", "s", "e", "r",
      "v", "i", "c", "e", "s", " ", "b", "e", "l", "o", "w", ":", "\n">>

\* ------------------------------------------------------------ str helpers

\* The code point of a character that occurs in the file names of the model.
code_point(c) ==
    IF c = "." THEN 46
    ELSE IF c = "/" THEN 47
    ELSE IF c = "_" THEN 95
    ELSE IF \E p \in 1..Len(digits) : digits[p] = c
         THEN 47 + (CHOOSE p \in 1..Len(digits) : digits[p] = c)
    ELSE 96 + (CHOOSE p \in 1..Len(ascii_lowercase) : ascii_lowercase[p] = c)

\* ord(c), looked up in the table of those code points (computed once)
code_points ==
    [c \in {".", "/", "_"} \cup {digits[p] : p \in 1..Len(digits)}
           \cup {ascii_lowercase[p] : p \in 1..Len(ascii_lowercase)} |-> code_point(c)]

ord(c) == code_points[c]

\* sub in s  (substring test on str)
contains(s, sub) ==
    \E i \in 1..(Len(s) - Len(sub) + 1) : \A j \in 1..Len(sub) : s[i + j - 1] = sub[j]

\* s.endswith(suffix)
endswith(s, suffix) ==
    /\ Len(s) >= Len(suffix)
    /\ \A j \in 1..Len(suffix) : s[Len(s) - Len(suffix) + j] = suffix[j]

\* a < b on str: lexicographic by code point, decided at the first position
\* where the two differ, or by length when one is a prefix of the other
str_less(a, b) ==
    LET n == IF Len(a) < Len(b) THEN Len(a) ELSE Len(b)
        differ == {i \in 1..n : a[i] # b[i]}
    IN  IF differ = {} THEN Len(a) < Len(b)
        ELSE LET first == CHOOSE i \in differ : \A j \in differ : i <= j
             IN  ord(a[first]) < ord(b[first])

\* Two decimal digits, as %H, %M and %S print them.
Digit(n) == digits[n + 1]
TwoDigits(n) == <<Digit(n \div 10), Digit(n % 10)>>

\* datetime.now().strftime("%Y%m%d_%H%M%S"), the clock counting seconds
\* from 2024-01-01 00:00:00 (well inside that day).
strftime(now) ==
    <<"2", "0", "2", "4", "0", "1", "0", "1", "_">>
    \o TwoDigits((now \div 3600) % 24) \o TwoDigits((now \div 60) % 60) \o TwoDigits(now % 60)

\* --------------------------------------------------------- text-mode I/O

\* Universal-newline translation of a text that holds a carriage return, cut
\* in two between line endings (never inside a "\r\n") and each half translated.
RECURSIVE translate_newlines(_)
translate_newlines(bytes) ==
    IF Len(bytes) = 0 THEN <<>>
    ELSE IF Len(bytes) = 1 THEN (IF bytes[1] = "\r" THEN <<"\n">> ELSE bytes)
    ELSE IF Len(bytes) = 2 /\ bytes = <<"\r", "\n">> THEN <<"\n">>
    ELSE LET mid == Len(bytes) \div 2
             cut == IF bytes[mid] = "\r" /\ bytes[mid + 1] = "\n" THEN mid + 1 ELSE mid
         IN  translate_newlines(SubSeq(bytes, 1, cut))
             \o translate_newlines(SubSeq(bytes, cut + 1, Len(bytes)))

\* f.read() on a file opened with open(path, 'r', encoding='utf-8'):
\* newline=None turns "\r\n" and a lone "\r" into "\n"; a text without a
\* carriage return is returned as stored.
text_read(bytes) ==
    IF \A i \in 1..Len(bytes) : bytes[i] # "\r" THEN bytes ELSE translate_newlines(bytes)

\* os.linesep of the container (Linux)
os_linesep == <<"\n">>

\* Each "\n" of a text replaced by `linesep`.
RECURSIVE expand_newlines(_, _)
expand_newlines(content, linesep) ==
    IF Len(content) = 0 THEN <<>>
    ELSE IF Len(content) = 1 THEN (IF content[1] = "\n" THEN linesep ELSE content)
    ELSE LET mid == Len(content) \div 2
         IN  expand_newlines(SubSeq(content, 1, mid), linesep)
             \o expand_newlines(SubSeq(content, mid + 1, Len(content)), linesep)

\* f.write(content) on a file opened with open(path, 'w', encoding='utf-8'):
\* newline=None writes each "\n" as os.linesep and leaves "\r" alone, which
\* stores the text as given where os.linesep is "\n".
text_write(content) ==
    IF os_linesep = <<"\n">> THEN content ELSE expand_newlines(content, os_linesep)

\* ---------------------------------------------------------------- inputs

\* Texts a client posts to /save and /validate.
TextLF == <<"a", ":", " ", "1", "\n">>
TextCRLF == <<"a", ":", " ", "1", "\r", "\n">>
TextInvalid == <<"{", "i", "n", "v", "a", "l", "i", "d", ":", " ", "[">>
TextOther == <<"b", ":", " ", "2", "\n">>

Candidates == {TextLF, TextCRLF, TextOther, TextInvalid}

\* Texts the clients of two concurrent requests post to /save.
TextFlow == <<"a", ":", " ", "[", "1", "]", "\n">>

TextShort == <<"[", "2", "]", "\n">>

ThreadCandidates == {TextFlow, TextShort, TextInvalid}

\* A file that holds `old` after `bytes` were written at its start through a
\* descriptor of its own: what is beyond the bytes written stays.
overlay(bytes, old) ==
    bytes \o [i \in 1..(IF Len(old) > Len(bytes) THEN Len(old) - Len(bytes) ELSE 0)
                 |-> old[Len(bytes) + i]]

\* The bytes the files of the model may hold, and what reading each in text
\* mode gives (computed once).
KnownTexts ==
    {text_write(t) : t \in Candidates \cup ThreadCandidates \cup {default_content}}
    \cup {TextLF, TextOther, <<>>}
    \cup {overlay(text_write(x), text_write(y)) : x, y \in ThreadCandidates}

text_read_of == [bytes \in KnownTexts |-> text_read(bytes)]

\* Files found on the volume when the service starts.
NotesName == <<"n", "o", "t", "e", "s", ".", "y", "a", "m", "l">>
ReadmeName == <<"r", "e", "a", "d", "m", "e", ".", "t", "x", "t">>
SettingsPath ==
    <<"/", "d", "a", "t", "a", "/", "s", "e", "t", "t", "i", "n", "g", "s", ".", "y", "a", "m",
      "l">>

\* f"services_{timestamp}.yaml"
backup_filename(now) ==
    <<"s", "e", "r", "v", "i", "c", "e", "s", "_">> \o strftime(now) \o <<".", "y", "a", "m", "l">>

\* File names a client asks /restore/<filename> for.
UnsafeNames ==
    { <<".", ".", "/", "s", "e", "t", "t", "i", "n", "g", "s", ".", "y", "a", "m", "l">>,
      <<"s", "u", "b", "/", "n", "o", "t", "e", "s", ".", "y", "a", "m", "l">>,
      <<"a", ".", ".", "y", "a", "m", "l">>,
      ReadmeName }

\* The backup file name of each second of the model (computed once).
backup_filename_of == [t \in 0..MaxClock |-> backup_filename(t)]

RestoreNames ==
    {backup_filename_of[t] : t \in 0..MaxClock} \cup {NotesName} \cup UnsafeNames

\* The order of those file names (computed once).
str_less_of == [a \in RestoreNames, b \in RestoreNames |-> str_less(a, b)]

\* sorted(names) without reverse=True
sorted_ascending(names) ==
    LET below == [x \in names |-> Cardinality({y \in names : str_less_of[y, x]})]
    IN  [i \in 1..Cardinality(names) |-> CHOOSE x \in names : below[x] = i - 1]

\* sorted(names, reverse=True): each name stands at the position given by the
\* number of names greater than it
sorted_reverse(names) ==
    LET above == [x \in names |-> Cardinality({y \in names : str_less_of[x, y]})]
    IN  [i \in 1..Cardinality(names) |-> CHOOSE x \in names : above[x] = i - 1]

\* ------------------------------------------------------------ file system

\* The segments of a path, split at "/".
RECURSIVE split_path(_, _)
split_path(path, cur) ==
    IF path = <<>> THEN <<cur>>
    ELSE IF Head(path) = "/" THEN <<cur>> \o split_path(Tail(path), <<>>)
    ELSE split_path(Tail(path), Append(cur, Head(path)))

\* The absolute path the kernel resolves a list of segments to, walking from
\* directory dir: "" and "." stay, ".." goes to the parent, a name goes down.
\* Every segment but the last must lead to a directory; None otherwise.
RECURSIVE walk(_, _)
walk(dir, segs) ==
    IF segs = <<>> THEN dir
    ELSE LET seg == Head(segs)
             parent == IF dir = <<>> THEN <<>>
                       ELSE LET cut == CHOOSE i \in 1..Len(dir) :
                                          /\ dir[i] = "/"
                                          /\ \A j \in (i + 1)..Len(dir) : dir[j] # "/"
                            IN  SubSeq(dir, 1, cut - 1)
             to == IF seg = <<>> \/ seg = <<".">> THEN dir
                   ELSE IF seg = <<".", ".">> THEN parent
                   ELSE dir \o <<"/">> \o seg
         IN  IF dir \notin Directories THEN None ELSE walk(to, Tail(segs))

\* os.path.join(a, b): an absolute b discards a
os_path_join(a, b) ==
    IF b # <<>> /\ Head(b) = "/" THEN b ELSE a \o <<"/">> \o b

realpath(path) == walk(<<>>, split_path(path, <<>>))

\* os.path.dirname(path), os.path.basename(path): before and after the last "/"
last_slash(path) ==
    CHOOSE i \in 1..Len(path) : path[i] = "/" /\ \A j \in (i + 1)..Len(path) : path[j] # "/"
os_path_dirname(path) == SubSeq(path, 1, last_slash(path) - 1)
os_path_basename(path) == SubSeq(path, last_slash(path) + 1, Len(path))

\* The paths the requests of the model hand to the operating system, with what
\* each resolves to, and the directory and the name of each file they can
\* reach (computed once).
KnownPaths ==
    {YAML_FILE_PATH, BACKUP_DIR, SettingsPath}
    \cup {os_path_join(BACKUP_DIR, n) : n \in RestoreNames}

realpath_of == [p \in KnownPaths |-> realpath(p)]

KnownFiles == {realpath_of[p] : p \in KnownPaths} \ (Directories \cup {None})

dirname_of == [p \in KnownFiles |-> os_path_dirname(p)]
basename_of == [p \in KnownFiles |-> os_path_basename(p)]

\* os.path.isfile(path), os.path.exists(path)
os_path_isfile(fs, path) == realpath_of[path] \in DOMAIN fs
os_path_exists(fs, path) ==
    os_path_isfile(fs, path) \/ realpath_of[path] \in Directories

\* os.listdir(dir): the names directly inside dir
os_listdir(fs, dir) == {basename_of[p] : p \in {q \in DOMAIN fs : dirname_of[q] = dir}}

\* The file system with `bytes` stored at path (created or overwritten).
store(fs, path, bytes) ==
    LET p == realpath_of[path]
    IN  IF p \in DOMAIN fs THEN [fs EXCEPT ![p] = bytes] ELSE fs @@ (p :> bytes)

\* shutil.copy2(src, dst): [ok, files]. It raises (ok = FALSE, nothing
\* written) when src is no regular file, when src and dst are the same file
\* (SameFileError), or when the copy fails in the operating system (~io_ok).
copy2(fs, src, dst, io_ok) ==
    IF \/ ~os_path_isfile(fs, src)
       \/ realpath_of[dst] = None
       \/ realpath_of[src] = realpath_of[dst]
       \/ ~io_ok
    THEN [ok |-> FALSE, files |-> fs]
    ELSE [ok |-> TRUE, files |-> store(fs, dst, fs[realpath_of[src]])]

\* The canonical document's bytes, or None when there is no such file.
Document(fs) == IF YAML_FILE_PATH \in DOMAIN fs THEN fs[YAML_FILE_PATH] ELSE None

\* The backup directory: file name |-> bytes.
BackupFiles(fs) ==
    [n \in os_listdir(fs, BACKUP_DIR) |-> fs[os_path_join(BACKUP_DIR, n)]]

\* ------------------------------------------------------------- the core

\* hashlib.sha256(content.encode('utf-8')).hexdigest(). The digest is kept
\* symbolic: SHA-256 is taken to be collision-free, so two digests are equal
\* exactly when the encoded texts are. The texts of the model are ASCII, which
\* UTF-8 encodes one byte per character.
get_file_hash(content) == [sha256 |-> content]

\* yaml.safe_load(content) raising no YAMLError. The parser is library code;
\* on the texts of the model (block mappings of plain scalars, comments, flow
\* collections) what it rejects is a flow collection left open, which is what
\* is computed here: `open` is the stack of flow brackets still to be closed.
RECURSIVE safe_load_ok(_, _)
safe_load_ok(content, open) ==
    IF content = <<>> THEN open = <<>>
    ELSE LET c == Head(content) IN
         IF c \in {"{", "["} THEN safe_load_ok(Tail(content), <<c>> \o open)
         ELSE IF c \in {"}", "]"}
              THEN /\ open # <<>>
                   /\ Head(open) = (IF c = "}" THEN "{" ELSE "[")
                   /\ safe_load_ok(Tail(content), Tail(open))
         ELSE safe_load_ok(Tail(content), open)

\* validate_yaml(content) -> (is_valid, error)
validate_yaml(content) ==
    IF safe_load_ok(content, <<>>)
    THEN [is_valid |-> TRUE, error |-> None]
    ELSE [is_valid |-> FALSE, error |-> <<"YAMLError">>]

validate_yaml_of ==
    [content \in Candidates \cup ThreadCandidates |-> validate_yaml(content)]

\* content_changed that reports "unchanged" when there is no document
content_changed_absent_unchanged(fs, new_content, read_ok) ==
    IF os_path_exists(fs, YAML_FILE_PATH)
    THEN IF read_ok
         THEN get_file_hash(new_content) # get_file_hash(text_read_of[fs[YAML_FILE_PATH]])
         ELSE TRUE
    ELSE FALSE

\* content_changed(new_content); read_ok = FALSE is open()/read() raising,
\* which the except clause turns into "changed".
content_changed(fs, new_content, read_ok) ==
    IF os_path_exists(fs, YAML_FILE_PATH)
    THEN IF read_ok
         THEN get_file_hash(new_content) # get_file_hash(text_read_of[fs[YAML_FILE_PATH]])
         ELSE TRUE
    ELSE TRUE

\* create_backup that names every backup after the second the service started
create_backup_one_name(fs, now, copy_ok) ==
    IF os_path_exists(fs, YAML_FILE_PATH)
    THEN LET name == backup_filename_of[0]
             copy == copy2(fs, YAML_FILE_PATH, os_path_join(BACKUP_DIR, name), copy_ok)
         IN  IF copy.ok
             THEN [name |-> name, files |-> copy.files, raised |-> FALSE]
             ELSE [name |-> None, files |-> fs, raised |-> TRUE]
    ELSE [name |-> None, files |-> fs, raised |-> FALSE]

\* create_backup() -> [name, files, raised]. copy_ok = FALSE is shutil.copy2
\* raising (backup directory missing or not writable, disk full), which the
\* except clause turns into a None result; `raised` records it.
create_backup(fs, now, copy_ok) ==
    IF os_path_exists(fs, YAML_FILE_PATH)
    THEN LET name == backup_filename_of[now]
             copy == copy2(fs, YAML_FILE_PATH, os_path_join(BACKUP_DIR, name), copy_ok)
         IN  IF copy.ok
             THEN [name |-> name, files |-> copy.files, raised |-> FALSE]
             ELSE [name |-> None, files |-> fs, raised |-> TRUE]
    ELSE [name |-> None, files |-> fs, raised |-> FALSE]

\* The text returned when reading the document raises:
\* f"# Error reading file: {e}\n# Please check file permissions and try again.\n"
error_content ==
    <<"#", " ", "E", "r", "r", "o", "r", " ", "r", "e", "a", "d", "i", "n", "g", " ", "f", "i",
      "l", "e", ":", " ">>
    \o <<"[", "E", "r", "r", "n", "o", " ", "5", "]", " ", "I", "n", "p", "u", "t", "/", "o",
         "u", "t", "p", "u", "t", " ", "e", "r", "r", "o", "r">>
    \o <<"\n", "#", " ", "P", "l", "e", "a", "s", "e", " ", "c", "h", "e", "c", "k", " ", "f",
         "i", "l", "e", " ", "p", "e", "r", "m", "i", "s", "s", "i", "o", "n", "s", " ", "a",
         "n", "d", " ", "t", "r", "y", " ", "a", "g", "a", "i", "n", ".", "\n">>

\* read_yaml_file that returns the default content without writing it
read_yaml_file_no_persist(fs, io_ok) ==
    IF os_path_exists(fs, YAML_FILE_PATH)
    THEN IF io_ok
         THEN [content |-> text_read_of[fs[YAML_FILE_PATH]], files |-> fs]
         ELSE [content |-> error_content, files |-> fs]
    ELSE [content |-> default_content, files |-> fs]

\* read_yaml_file() -> [content, files]; io_ok = FALSE is the read (document
\* present) or the write of the default (document absent) raising.
read_yaml_file(fs, io_ok) ==
    IF os_path_exists(fs, YAML_FILE_PATH)
    THEN IF io_ok
         THEN [content |-> text_read_of[fs[YAML_FILE_PATH]], files |-> fs]
         ELSE [content |-> error_content, files |-> fs]
    ELSE IF io_ok
         THEN [content |-> default_content,
               files |-> store(fs, YAML_FILE_PATH, text_write(default_content))]
         ELSE [content |-> error_content, files |-> fs]

\* write_yaml_file(content) -> [success, files]; io_ok = FALSE is open() or
\* write() raising.
write_yaml_file(fs, content, io_ok) ==
    IF io_ok
    THEN [success |-> TRUE, files |-> store(fs, YAML_FILE_PATH, text_write(content))]
    ELSE [success |-> FALSE, files |-> fs]

\* The security check without the test for a path separator
filename_is_safe_no_separator(filename) ==
    ~(\/ contains(filename, <<".", ".">>)
      \/ ~endswith(filename, <<".", "y", "a", "m", "l">>))

\* The security check of restore_backup: the file name passes when none of the
\* three tests of the code rejects it.
filename_is_safe(filename) ==
    ~(\/ contains(filename, <<".", ".">>)
      \/ contains(filename, <<"/">>)
      \/ ~endswith(filename, <<".", "y", "a", "m", "l">>))

filename_is_safe_of == [filename \in RestoreNames |-> filename_is_safe(filename)]

\* The file names list_backups() returns, in its order.
listed_filenames(fs) ==
    IF os_path_exists(fs, BACKUP_DIR)
    THEN SelectSeq(sorted_reverse(os_listdir(fs, BACKUP_DIR)),
                   LAMBDA filename :
                       /\ endswith(filename, <<".", "y", "a", "m", "l">>)
                       /\ os_path_isfile(fs, os_path_join(BACKUP_DIR, filename)))
    ELSE <<>>

\* ------------------------------------------------------------ the threads

\* app.run(threaded=True) handles each request in a thread of its own and
\* save() takes no lock: between any two file operations of one save() the
\* other thread may run. Two threads are modelled.
Threads == {1, 2}

\* A thread: pc is the statement of save() it is about to run, content the
\* text posted, name the backup file create_backup has opened, stages the
\* stages of the Save passed so far, outcome the response returned.
Idle == [pc |-> "idle", content |-> None, name |-> None, stages |-> <<>>, outcome |-> "none"]

\* open(path, 'w') and open(path, 'wb'): the file is created or cut to length 0.
truncate(fs, path) == store(fs, path, <<>>)

\* write() and close() on a descriptor opened before: the bytes go to the start
\* of the file as it is now.
write_at_start(fs, path, bytes) == store(fs, path, overlay(bytes, fs[realpath_of[path]]))

\* The thread goes on to the statement pc, having entered the stages `entered`.
Advance(t, entered, pc, name) ==
    threads' = [threads EXCEPT ![t] = [@ EXCEPT !.pc = pc, !.name = name,
                                                !.stages = @ \o entered]]

\* The thread returns the response `outcome`.
Finish(t, entered, outcome) ==
    threads' = [threads EXCEPT ![t] = [@ EXCEPT !.pc = "idle", !.outcome = outcome,
                                                !.stages = @ \o entered \o <<"Done">>]]

\* A request POST /save arrives (line 178).
save_begin(t, content) ==
    /\ threads[t].pc = "idle"
    /\ log.begun < MaxSaves
    /\ threads' = [threads EXCEPT ![t] = [Idle EXCEPT !.pc = "validate", !.content = content]]
    /\ log' = [log EXCEPT !.begun = @ + 1]
    /\ UNCHANGED <<files, clock, last, undone>>

\* validate_yaml(content) and the 400 response (lines 181-186)
save_validate(t) ==
    /\ threads[t].pc = "validate"
    /\ IF validate_yaml_of[threads[t].content].is_valid
       THEN Advance(t, <<"Validating">>, "compare", None)
       ELSE Finish(t, <<"Validating">>, "Rejected")
    /\ UNCHANGED <<files, clock, last, undone, log>>

\* save() that goes from the comparison straight to the write
save_compare_then_write(t) ==
    /\ threads[t].pc = "compare"
    /\ IF content_changed(files, threads[t].content, TRUE)
       THEN Advance(t, <<"Comparing">>, "open", None)
       ELSE Finish(t, <<"Comparing">>, "NoOp")
    /\ UNCHANGED <<files, clock, last, undone, log>>

\* content_changed(content) and the "no changes" response (lines 189-195)
save_compare(t) ==
    /\ threads[t].pc = "compare"
    /\ IF content_changed(files, threads[t].content, TRUE)
       THEN Advance(t, <<"Comparing">>, "backup", None)
       ELSE Finish(t, <<"Comparing">>, "NoOp")
    /\ UNCHANGED <<files, clock, last, undone, log>>

\* create_backup() up to the point where shutil.copy2 has opened the document
\* and the backup file (lines 48-52); copy_ok = FALSE is the open raising.
save_backup(t) ==
    /\ threads[t].pc = "backup"
    /\ IF os_path_exists(files, YAML_FILE_PATH)
       THEN \E copy_ok \in BOOLEAN :
               IF copy_ok
               THEN /\ files' = truncate(files, os_path_join(BACKUP_DIR,
                                                             backup_filename_of[clock]))
                    /\ Advance(t, <<"BackingUp">>, "copy", backup_filename_of[clock])
               ELSE /\ files' = files
                    /\ Advance(t, <<"BackingUp">>, "open", None)
       ELSE /\ files' = files
            /\ Advance(t, <<"BackingUp">>, "open", None)
    /\ UNCHANGED <<clock, last, undone, log>>

\* shutil.copy2 moves the bytes the document holds now into the backup file
\* (line 52); create_backup returns the name (line 54).
save_copy(t) ==
    /\ threads[t].pc = "copy"
    /\ files' = write_at_start(files, os_path_join(BACKUP_DIR, threads[t].name),
                               files[YAML_FILE_PATH])
    /\ log' = [log EXCEPT !.copied =
                  (threads[t].name :>
                      [content |-> files[YAML_FILE_PATH],
                       again |-> threads[t].name \in DOMAIN log.copied,
                       held |-> {files[YAML_FILE_PATH]} \cup
                                (IF threads[t].name \in DOMAIN log.copied
                                 THEN log.copied[threads[t].name].held ELSE {})])
                  @@ log.copied]
    /\ Advance(t, <<>>, "open", threads[t].name)
    /\ UNCHANGED <<clock, last, undone>>

\* write_yaml_file(content): open(YAML_FILE_PATH, 'w') (line 122); write_ok =
\* FALSE is the open raising, which ends in the 500 response (lines 212-216).
save_open(t) ==
    /\ threads[t].pc = "open"
    /\ \E write_ok \in BOOLEAN :
          IF write_ok
          THEN /\ files' = truncate(files, YAML_FILE_PATH)
               /\ Advance(t, <<"Writing">>, "write", threads[t].name)
          ELSE /\ files' = files
               /\ Finish(t, <<"Writing">>, "WriteFailed")
    /\ UNCHANGED <<clock, last, undone, log>>

\* f.write(content) and the close of the file (line 123), then the success
\* response (lines 203-211).
save_write(t) ==
    /\ threads[t].pc = "write"
    /\ files' = write_at_start(files, YAML_FILE_PATH, text_write(threads[t].content))
    /\ log' = [log EXCEPT !.written = text_write(threads[t].content)]
    /\ Finish(t, <<>>, "Saved")
    /\ UNCHANGED <<clock, last, undone>>

\* The statement a thread inside save() runs next.
save_step(t) ==
    \/ save_validate(t)
    \/ save_compare(t)
    \/ save_backup(t)
    \/ save_copy(t)
    \/ save_open(t)
    \/ save_write(t)

\* ----------------------------------------------------------- the requests

\* What create_backup did when the request did not reach it.
NoBackup == [name |-> None, raised |-> FALSE]

\* A request ends: the file system it leaves, and in `last` its record: what
\* was asked (op, arg), what was answered (status; the JSON field success,
\* "absent" where the answer has none; the HTTP code; ret, the content, list or
\* verdict returned), what the backup step did (name: the file name
\* create_backup returned; raised: its copy failed), the document's bytes when
\* the request arrived (docBefore), whether the request changed any file
\* (changed). When the request restores the backup that the Save right before
\* it made, `undone` holds the records of both (it is empty otherwise), and
\* keeps them through a reload that follows at once.
Respond(fs, op, arg, status, success, code, ret, backup) ==
    LET record == [op |-> op, arg |-> arg, status |-> status, success |-> success,
                   code |-> code, ret |-> ret, name |-> backup.name,
                   raised |-> backup.raised, docBefore |-> Document(files),
                   changed |-> (fs # files)]
    IN  /\ files' = fs
        /\ last' = record
        /\ undone' = IF /\ op = "restore" /\ status = "Restored"
                        /\ last.op = "save" /\ last.status = "Saved"
                        /\ last.name = arg
                     THEN <<[save |-> last, restore |-> record]>>
                     ELSE IF op = "reload" /\ last.op = "restore"
                     THEN undone
                     ELSE <<>>
        /\ UNCHANGED <<clock, threads, log>>

\* save with the document written before the backup is taken
save_write_first(content, io) ==
    IF ~validate_yaml_of[content].is_valid
    THEN Respond(files, "save", content, "Rejected", "false", 400, None, NoBackup)
    ELSE \E read_ok \in io :
        IF ~content_changed(files, content, read_ok)
        THEN Respond(files, "save", content, "NoOp", "true", 200, None, NoBackup)
        ELSE \E copy_ok \in BOOLEAN, write_ok \in io :
            LET w == write_yaml_file(files, content, write_ok)
                b == create_backup(w.files, clock, copy_ok)
            IN  IF w.success
                THEN Respond(b.files, "save", content, "Saved", "true", 200, None, b)
                ELSE Respond(b.files, "save", content, "WriteFailed", "false", 500, None, b)

\* save with the backup taken before the text is validated
save_backup_first(content, io) ==
    \E copy_ok \in BOOLEAN :
        LET b == create_backup(files, clock, copy_ok)
        IN  IF ~validate_yaml_of[content].is_valid
            THEN Respond(b.files, "save", content, "Rejected", "false", 400, None, NoBackup)
            ELSE \E read_ok \in io :
                IF ~content_changed(files, content, read_ok)
                THEN Respond(b.files, "save", content, "NoOp", "true", 200, None, NoBackup)
                ELSE \E write_ok \in io :
                    LET w == write_yaml_file(b.files, content, write_ok)
                    IN  IF w.success
                        THEN Respond(w.files, "save", content, "Saved", "true", 200, None, b)
                        ELSE Respond(w.files, "save", content, "WriteFailed", "false", 500,
                                     None, b)

\* save that gives up when the backup could not be taken
save_needs_backup(content, io) ==
    IF ~validate_yaml_of[content].is_valid
    THEN Respond(files, "save", content, "Rejected", "false", 400, None, NoBackup)
    ELSE \E read_ok \in io :
        IF ~content_changed(files, content, read_ok)
        THEN Respond(files, "save", content, "NoOp", "true", 200, None, NoBackup)
        ELSE \E copy_ok \in BOOLEAN, write_ok \in io :
            LET b == create_backup(files, clock, copy_ok)
                w == write_yaml_file(b.files, content, write_ok)
            IN  IF b.raised
                THEN Respond(b.files, "save", content, "WriteFailed", "false", 500, None, b)
                ELSE IF w.success
                THEN Respond(w.files, "save", content, "Saved", "true", 200, None, b)
                ELSE Respond(w.files, "save", content, "WriteFailed", "false", 500, None, b)

\* POST /save. `io` is the set of outcomes of the document's own reads and
\* writes (TRUE: the operating system performs them, FALSE: it raises); the
\* copy into the backup directory may always fail.
save(content, io) ==
    IF ~validate_yaml_of[content].is_valid
    THEN Respond(files, "save", content, "Rejected", "false", 400, None, NoBackup)
    ELSE \E read_ok \in io :
        IF ~content_changed(files, content, read_ok)
        THEN Respond(files, "save", content, "NoOp", "true", 200, None, NoBackup)
        ELSE \E copy_ok \in BOOLEAN, write_ok \in io :
            LET b == create_backup(files, clock, copy_ok)
                w == write_yaml_file(b.files, content, write_ok)
            IN  IF w.success
                THEN Respond(w.files, "save", content, "Saved", "true", 200, None, b)
                ELSE Respond(w.files, "save", content, "WriteFailed", "false", 500, None, b)

\* restore_backup that does not back the current document up first
restore_without_backup(filename, io) ==
    LET backup_path == os_path_join(BACKUP_DIR, filename)
    IN  IF ~filename_is_safe_of[filename]
        THEN Respond(files, "restore", filename, "Invalid", "absent", 400, None, NoBackup)
        ELSE IF ~os_path_exists(files, backup_path)
        THEN Respond(files, "restore", filename, "NotFound", "absent", 404, None, NoBackup)
        ELSE \E restore_ok \in io, read_ok \in io :
            LET c == copy2(files, backup_path, YAML_FILE_PATH, restore_ok)
                r == read_yaml_file(c.files, read_ok)
            IN  IF c.ok
                THEN Respond(r.files, "restore", filename, "Restored", "true", 200,
                             [content |-> r.content, src |-> realpath_of[backup_path]],
                             NoBackup)
                ELSE Respond(c.files, "restore", filename, "Error", "absent", 500, None,
                             NoBackup)

\* restore_backup that takes its backup before it looks the file up
restore_backup_before_lookup(filename, io) ==
    LET backup_path == os_path_join(BACKUP_DIR, filename)
    IN  IF ~filename_is_safe_of[filename]
        THEN Respond(files, "restore", filename, "Invalid", "absent", 400, None, NoBackup)
        ELSE \E copy_ok \in BOOLEAN, restore_ok \in io, read_ok \in io :
            LET b == create_backup(files, clock, copy_ok)
                c == copy2(b.files, backup_path, YAML_FILE_PATH, restore_ok)
                r == read_yaml_file(c.files, read_ok)
            IN  IF ~os_path_exists(b.files, backup_path)
                THEN Respond(b.files, "restore", filename, "NotFound", "absent", 404, None,
                             NoBackup)
                ELSE IF c.ok
                THEN Respond(r.files, "restore", filename, "Restored", "true", 200,
                             [content |-> r.content, src |-> realpath_of[backup_path]], b)
                ELSE Respond(c.files, "restore", filename, "Error", "absent", 500, None, b)

\* restore_backup that does nothing when the backup holds what the document
\* holds
restore_if_changed(filename, io) ==
    LET backup_path == os_path_join(BACKUP_DIR, filename)
    IN  IF ~filename_is_safe_of[filename]
        THEN Respond(files, "restore", filename, "Invalid", "absent", 400, None, NoBackup)
        ELSE IF ~os_path_exists(files, backup_path)
        THEN Respond(files, "restore", filename, "NotFound", "absent", 404, None, NoBackup)
        ELSE \E copy_ok \in BOOLEAN, restore_ok \in io, read_ok \in io :
            LET same == files[realpath_of[backup_path]] = Document(files)
                b == IF same
                     THEN [name |-> None, files |-> files, raised |-> FALSE]
                     ELSE create_backup(files, clock, copy_ok)
                c == copy2(b.files, backup_path, YAML_FILE_PATH, restore_ok)
                r == read_yaml_file(c.files, read_ok)
            IN  IF c.ok
                THEN Respond(r.files, "restore", filename, "Restored", "true", 200,
                             [content |-> r.content, src |-> realpath_of[backup_path]], b)
                ELSE Respond(c.files, "restore", filename, "Error", "absent", 500, None, b)

\* GET /restore/<filename>
restore_backup(filename, io) ==
    LET backup_path == os_path_join(BACKUP_DIR, filename)
    IN  IF ~filename_is_safe_of[filename]
        THEN Respond(files, "restore", filename, "Invalid", "absent", 400, None, NoBackup)
        ELSE IF ~os_path_exists(files, backup_path)
        THEN Respond(files, "restore", filename, "NotFound", "absent", 404, None, NoBackup)
        ELSE \E copy_ok \in BOOLEAN, restore_ok \in io, read_ok \in io :
            LET b == create_backup(files, clock, copy_ok)
                c == copy2(b.files, backup_path, YAML_FILE_PATH, restore_ok)
                r == read_yaml_file(c.files, read_ok)
            IN  IF c.ok
                THEN Respond(r.files, "restore", filename, "Restored", "true", 200,
                             [content |-> r.content, src |-> realpath_of[backup_path]], b)
                ELSE Respond(c.files, "restore", filename, "Error", "absent", 500, None, b)

\* GET /reload (and GET /, which renders the same content)
reload(io) ==
    \E io_ok \in io :
        LET r == read_yaml_file(files, io_ok)
        IN  Respond(r.files, "reload", None, "Loaded", "absent", 200, r.content, NoBackup)

\* GET /backups; each entry carries the file's name and size (the modification
\* time, which no request reads back, is left out).
list_backups ==
    LET names == listed_filenames(files)
        backups == [i \in 1..Len(names) |->
                       [filename |-> names[i],
                        size |-> Len(files[os_path_join(BACKUP_DIR, names[i])])]]
    IN  Respond(files, "backups", None, "Listed", "absent", 200, backups, NoBackup)

\* POST /validate
validate(content) ==
    Respond(files, "validate", content, "Validated", "absent", 200,
            validate_yaml_of[content], NoBackup)

\* ------------------------------------------------------ the specification

\* The service starts on a volume that holds the document or not, next to the
\* other configuration of the dashboard, and a backup directory that holds
\* files of earlier use.
Init ==
    /\ clock = 0
    /\ last = [op |-> "start", arg |-> None, status |-> "Started", success |-> "absent",
               code |-> 200, ret |-> None, name |-> None, raised |-> FALSE,
               docBefore |-> None, changed |-> FALSE]
    /\ undone = <<>>
    /\ threads = [t \in Threads |-> Idle]
    /\ log = [begun |-> 0, written |-> None, copied |-> [n \in {} |-> None]]
    /\ \E withDoc \in BOOLEAN :
          files = [p \in {SettingsPath,
                          os_path_join(BACKUP_DIR, NotesName),
                          os_path_join(BACKUP_DIR, ReadmeName)}
                        \cup (IF withDoc THEN {YAML_FILE_PATH} ELSE {})
                   |-> IF p = YAML_FILE_PATH THEN TextLF ELSE TextOther]

\* A second of wall-clock time passes.
Tick ==
    /\ clock < MaxClock
    /\ clock' = clock + 1
    /\ UNCHANGED <<files, last, undone, threads, log>>

\* The requests a client may send.
SaveRequest(io) == \E content \in Candidates : save(content, io)

RestoreRequest(io) == \E filename \in RestoreNames : restore_backup(filename, io)

ReloadRequest(io) == reload(io)

ListRequest == list_backups

ValidateRequest == \E content \in Candidates : validate(content)

Next ==
    \/ SaveRequest({TRUE})
    \/ RestoreRequest({TRUE})
    \/ ReloadRequest({TRUE})
    \/ ListRequest
    \/ ValidateRequest
    \/ Tick

Spec == Init /\ [][Next]_vars

\* The same service on a volume whose reads and writes of the document may fail.
NextIO ==
    \/ SaveRequest(BOOLEAN)
    \/ RestoreRequest(BOOLEAN)
    \/ ReloadRequest(BOOLEAN)
    \/ ListRequest
    \/ ValidateRequest
    \/ Tick

SpecIO == Init /\ [][NextIO]_vars

\* The service with two request-handling threads inside save() at once. The
\* operating system schedules every thread that can run.
NextThreads ==
    \/ \E t \in Threads, content \in ThreadCandidates : save_begin(t, content)
    \/ \E t \in Threads : save_step(t)
    \/ Tick

SpecThreads == Init /\ [][NextThreads]_vars /\ \A t \in Threads : WF_vars(save_step(t))

\* ------------------------------------------------------------ the claims

\* The document and the backup directory of the current file system.
Doc == Document(files)
Backups == BackupFiles(files)

\* The step is a request (not the passing of time).
Requested == clock' = clock

\* The newest request overwrote a document that was there.
Overwrote == last.status \in {"Saved", "Restored"} /\ last.docBefore # None

\* C1 as stated: whenever a Save or Restore overwrites an existing document
\* whose content is C_old, the backup directory holds, at that moment, a
\* snapshot whose content is C_old. (The write leaves the backup directory
\* alone, so the directory at the moment of the overwrite is the one the
\* request leaves.)
C1_SnapshotBeforeEveryOverwrite ==
    Overwrote => \E n \in DOMAIN Backups : Backups[n] = last.docBefore

\* C1 as amended: whenever a Save or Restore overwrites an existing document
\* whose content is C_old and its backup step did not fail, the backup
\* directory holds, at that moment, under the name the backup step returned, a
\* snapshot whose content is C_old.
C1_SnapshotBeforeOverwriteUnlessBackupFailed ==
    (Overwrote /\ ~last.raised) =>
        /\ last.name \in DOMAIN Backups
        /\ Backups[last.name] = last.docBefore

\* A Restore has overwritten an existing document after taking its backup.
C1_Witness ==
    /\ last.status = "Restored"
    /\ last.docBefore # None
    /\ ~last.raised
    /\ last.name # None
    /\ Doc # last.docBefore

\* C2: a Save of a text that fails YAML validation is answered Rejected
\* (success false, HTTP 400) and changes no file: the document and the backup
\* directory are as before.
C2_ValidationGate ==
    (last.op = "save" /\ ~validate_yaml(last.arg).is_valid) =>
        /\ last.status = "Rejected"
        /\ last.success = "false"
        /\ last.code = 400
        /\ ~last.changed
        /\ last.name = None
        /\ Doc = last.docBefore

\* The text "{invalid: [" was posted to /save while a document existed.
C2_Witness ==
    /\ last.op = "save"
    /\ last.arg = TextInvalid
    /\ last.docBefore # None

\* C3 as stated: a Save of a valid text X answered Saved or NoOp and followed
\* at once by another Save of X has the second answered NoOp, which changes no
\* file (so the two add at most one file to the backup directory, and further
\* repeats add none).
C3_SaveIdempotent ==
    [][(/\ last.op = "save"
        /\ last.status \in {"Saved", "NoOp"}
        /\ Requested
        /\ last'.op = "save"
        /\ last'.arg = last.arg)
       => (last'.status = "NoOp" /\ files' = files)]_vars

\* The round trip of C4: a Save answered Saved wrote C2 over an existing
\* document C1 # C2 and returned the backup B1; the next request restored B1
\* and its own backup step did not fail; `last` is that Restore or the reload
\* right after it.
RoundTrip ==
    /\ undone # <<>>
    /\ undone[1].save.docBefore # None
    /\ undone[1].save.arg # undone[1].save.docBefore
    /\ ~undone[1].restore.raised

Unsafe(filename) ==
    \/ contains(filename, <<".", ".">>)
    \/ contains(filename, <<"/">>)
    \/ ~endswith(filename, <<".", "y", "a", "m", "l">>)

\* C5: a Restore of a file name that holds "..", holds a path separator or
\* does not end with ".yaml" is answered Invalid (HTTP 400, not NotFound: the
\* backup directory is not looked at), takes no backup and changes no file;
\* and every Restore answered Restored read the content from a file directly
\* inside the backup directory.
C5_FilenameSafety ==
    last.op = "restore" =>
        /\ Unsafe(last.arg) =>
              /\ last.status = "Invalid"
              /\ last.code = 400
              /\ last.name = None
              /\ ~last.raised
              /\ ~last.changed
        /\ last.status = "Restored" =>
              /\ last.ret.src # None
              /\ os_path_dirname(last.ret.src) = BACKUP_DIR
              /\ os_path_join(BACKUP_DIR, os_path_basename(last.ret.src)) = last.ret.src

\* "../settings.yaml", which names an existing file next to the document, was
\* asked for while a document existed.
C5_Witness ==
    /\ last.op = "restore"
    /\ last.arg = <<".", ".", "/", "s", "e", "t", "t", "i", "n", "g", "s", ".", "y", "a", "m", "l">>
    /\ os_path_isfile(files, os_path_join(BACKUP_DIR, last.arg))
    /\ last.docBefore # None

\* C6 as stated: a Save of a valid text X is answered NoOp, changing no file,
\* exactly when a document exists whose stored content is X character for
\* character; in every other case it is answered Saved and the document is X.
C6_ByteExactChangeDetection ==
    (last.op = "save" /\ validate_yaml(last.arg).is_valid) =>
        IF last.docBefore # None /\ last.docBefore = last.arg
        THEN last.status = "NoOp" /\ ~last.changed
        ELSE last.status = "Saved" /\ Doc = last.arg

\* C7 as stated: no request changes or deletes a file that is in the backup
\* directory.
C7_SnapshotsNeverChange ==
    [][\A n \in DOMAIN Backups :
          /\ n \in DOMAIN BackupFiles(files')
          /\ BackupFiles(files')[n] = Backups[n]]_vars

\* C7 as amended: no request deletes a file of the backup directory, and the
\* only thing that changes the content of one is the backup step of a Save or
\* Restore that computes the same file name, which happens within the second
\* the name is made of; the file then holds the document of that moment.
C7_SnapshotsChangeOnlyBySameNameBackup ==
    [][\A p \in DOMAIN files :
          dirname_of[p] = BACKUP_DIR =>
              /\ p \in DOMAIN files'
              /\ files'[p] # files[p] =>
                    /\ last'.name = basename_of[p]
                    /\ last'.op \in {"save", "restore"}
                    /\ basename_of[p] = backup_filename(clock)
                    /\ files'[p] = Doc]_vars

\* A Save took a backup while the backup directory held the backup of an
\* earlier second.
C7_Witness ==
    /\ last.op = "save"
    /\ last.name = backup_filename(1)
    /\ backup_filename(0) \in DOMAIN Backups
    /\ Backups[backup_filename(0)] # Backups[backup_filename(1)]

C9_FailedBackupDoesNotBlock ==
    last.raised =>
        /\ last.status \in {"Saved", "Restored"}
        /\ last.success = "true"
        /\ last.code = 200
        /\ last.name = NoBackup.name
        /\ last.op = "save" => Doc = last.arg
        /\ last.op = "restore" => Doc = Backups[last.arg]

\* A Save whose backup failed has replaced the document.
C9_Witness ==
    /\ last.raised
    /\ last.op = "save"
    /\ last.docBefore # None
    /\ Doc = last.arg
    /\ Doc # last.docBefore

\* C10: the list /backups returns is in descending order of file name, so a
\* snapshot of a later second stands before one of an earlier second, every
\* snapshot in the directory being listed; the request changes no file.
C10_ListingOrder ==
    last.op = "backups" =>
        /\ ~last.changed
        /\ \A i, j \in DOMAIN last.ret :
              i < j => str_less(last.ret[j].filename, last.ret[i].filename)
        /\ \A t \in 0..MaxClock :
              backup_filename(t) \in DOMAIN Backups
                 => \E i \in DOMAIN last.ret : last.ret[i].filename = backup_filename(t)
        /\ \A t1, t2 \in 0..MaxClock : \A i, j \in DOMAIN last.ret :
              (/\ t1 < t2
               /\ last.ret[i].filename = backup_filename(t2)
               /\ last.ret[j].filename = backup_filename(t1)) => i < j

\* Snapshots of three different seconds were listed.
C10_Witness ==
    /\ last.op = "backups"
    /\ \A t \in 0..2 : \E i \in DOMAIN last.ret : last.ret[i].filename = backup_filename(t)

\* The snapshot naming convention services_YYYYMMDD_HHMMSS.yaml: the prefix,
\* eight digits, an underscore, six digits, the extension.
snapshot_name(filename) ==
    /\ Len(filename) = 29
    /\ \A i \in 1..9 : filename[i] = <<"s", "e", "r", "v", "i", "c", "e", "s", "_">>[i]
    /\ \A i \in (10..17) \cup (19..24) : \E d \in DOMAIN digits : filename[i] = digits[d]
    /\ filename[18] = "_"
    /\ endswith(filename, <<".", "y", "a", "m", "l">>)

\* C11 as stated: the file names /backups returns are exactly the names in
\* the backup directory that follow the snapshot naming convention; a file
\* such as notes.yaml is left out.
C11_ListingFilter ==
    last.op = "backups" =>
        {last.ret[i].filename : i \in DOMAIN last.ret}
            = {n \in DOMAIN Backups : snapshot_name(n)}

\* C15: a Restore of a file name that passes the safety check and names no
\* file in the backup directory is answered NotFound (HTTP 404), takes no
\* backup and changes no file.
C15_RestoreNotFound ==
    [][(/\ Requested
        /\ last'.op = "restore"
        /\ last'.arg \notin DOMAIN Backups
        /\ ~Unsafe(last'.arg))
       => (/\ last'.status = "NotFound"
           /\ last'.code = 404
           /\ last'.name = None
           /\ ~last'.raised
           /\ files' = files)]_vars

\* The backup of second 1 was asked for while the directory held the backup
\* of second 0 only, and a document existed.
C15_Witness ==
    /\ last.op = "restore"
    /\ last.status = "NotFound"
    /\ last.arg = backup_filename(1)
    /\ backup_filename(0) \in DOMAIN Backups
    /\ last.docBefore # None

\* C16: with no document, a Save of a valid text X is answered Saved without a
\* backup file name, the backup step neither failing nor creating a file, and
\* the document is created with content X; a Restore of a file of the backup
\* directory is answered Restored without a backup file name, creates no
\* backup, and creates the document with that file's content.
C16_WriteWithNoPriorDocument ==
    [][(Requested /\ Doc = None) =>
          /\ (last'.op = "save" /\ validate_yaml(last'.arg).is_valid) =>
                /\ last'.status = "Saved"
                /\ last'.success = "true"
                /\ last'.name = None
                /\ ~last'.raised
                /\ Document(files') = last'.arg
                /\ BackupFiles(files') = Backups
          /\ (/\ last'.op = "restore"
              /\ last'.arg \in DOMAIN Backups
              /\ ~Unsafe(last'.arg)) =>
                /\ last'.status = "Restored"
                /\ last'.success = "true"
                /\ last'.name = None
                /\ ~last'.raised
                /\ Document(files') = Backups[last'.arg]
                /\ BackupFiles(files') = Backups]_vars

\* A Save has created the document.
C16_Witness ==
    /\ last.op = "save"
    /\ last.docBefore = None
    /\ last.status = "Saved"
    /\ last.name = None
    /\ Doc = last.arg

\* C19: no request removes a file name from the backup directory; a reload, a
\* validation, a listing, a Save answered Rejected or NoOp and a Restore
\* answered Invalid or NotFound leave the set of names as it is; any request
\* adds at most one name; and a Restore of a file that holds what the document
\* holds still backs the document up, under the name of the current second.
C19_BackupDirectoryGrowth ==
    [][Requested =>
          LET after == BackupFiles(files')
          IN  /\ DOMAIN Backups \subseteq DOMAIN after
              /\ Cardinality(DOMAIN after \ DOMAIN Backups) <= 1
              /\ (\/ last'.op \in {"reload", "validate", "backups"}
                  \/ last'.status \in {"Rejected", "NoOp", "Invalid", "NotFound"})
                    => DOMAIN after = DOMAIN Backups
              /\ (/\ last'.status = "Restored"
                  /\ Doc # None
                  /\ Backups[last'.arg] = Doc
                  /\ ~last'.raised)
                    => /\ last'.name = backup_filename(clock)
                       /\ last'.name \in DOMAIN after
                       /\ after[last'.name] = Doc]_vars

\* A Restore of a file that held what the document held has added a backup.
C19_Witness ==
    /\ last.op = "restore"
    /\ last.status = "Restored"
    /\ last.docBefore # None
    /\ Doc = last.docBefore
    /\ last.name # None
    /\ last.name # last.arg
    /\ last.changed

\* No thread is inside save().
Quiescent == \A t \in Threads : threads[t].pc = "idle"

\* C12 as stated: whatever the interleaving of two concurrent Saves, once both
\* have returned the document holds the text of the Save whose write ran
\* last.
C12_LastWriterWins ==
    (Quiescent /\ log.written # None) => Doc = log.written

\* Both threads carry the same text X, have both found it changed against the
\* same document, and both go on to back up and write.
C12_BothPassTheCheck ==
    /\ threads[1].content = threads[2].content
    /\ threads[1].pc = "backup"
    /\ threads[2].pc = "backup"

\* C13 as stated: when a backup file has been the target of two backups (which
\* then fell in the same second), sequential or concurrent, once no backup is
\* under way the file holds the document content that the later of the two
\* copied.
C13_SameSecondCollision ==
    \A n \in DOMAIN log.copied :
        (/\ log.copied[n].again
         /\ \A t \in Threads : ~(threads[t].pc = "copy" /\ threads[t].name = n))
            => Backups[n] = log.copied[n].content

\* C17 as stated: the document and the backup directory holding valid YAML at
\* the start, after any operations, sequential or interleaved, the document,
\* when it exists, is valid YAML.
C17_DocumentStaysValid ==
    (Quiescent /\ Doc # None) => validate_yaml(Doc).is_valid

\* The stages of a Save in the order of the claim, before the terminal Done.
StageOrder == <<"Validating", "Comparing", "BackingUp", "Writing">>

\* The stages thread t has passed are the first k of StageOrder, followed by
\* Done exactly when the thread has returned; and it has returned Rejected
\* from Validating, NoOp from Comparing, Saved or a write failure from
\* Writing, and nothing else.
StagesInOrder(t) ==
    LET s == threads[t].stages
        done == s # <<>> /\ s[Len(s)] = "Done"
        k == IF done THEN Len(s) - 1 ELSE Len(s)
    IN  /\ k <= Len(StageOrder)
        /\ \A i \in 1..k : s[i] = StageOrder[i]
        /\ done <=> (threads[t].pc = "idle" /\ s # <<>>)
        /\ done => \/ k = 1 /\ threads[t].outcome = "Rejected"
                   \/ k = 2 /\ threads[t].outcome = "NoOp"
                   \/ k = 4 /\ threads[t].outcome \in {"Saved", "WriteFailed"}
        /\ ~done => threads[t].outcome = "none"

\* C14: every Save passes the stages Validating, Comparing, BackingUp, Writing
\* in that order up to its terminal outcome; a Save changes the document only
\* after its text passed validation, was found changed and its backup attempt
\* was over; and every Save that has begun returns one of Rejected, NoOp,
\* Saved or a write failure.
C14_SaveStageOrder ==
    /\ [](\A t \in Threads : StagesInOrder(t))
    /\ [][\A t \in Threads :
             (threads'[t] # threads[t] /\ Document(files') # Doc) =>
                 /\ threads[t].pc \in {"open", "write"}
                 /\ \A i \in 1..3 : threads[t].stages[i] = StageOrder[i]
                 /\ validate_yaml(threads[t].content).is_valid
                 /\ threads'[t].stages[4] = "Writing"]_vars
    /\ \A t \in Threads :
          (threads[t].pc # "idle")
              ~> (/\ threads[t].pc = "idle"
                  /\ threads[t].outcome \in {"Rejected", "NoOp", "Saved", "WriteFailed"})

\* One thread has returned Saved after all four stages, the other has
\* returned NoOp after two.
C14_Witness ==
    /\ threads[1].outcome = "Saved"
    /\ threads[1].stages = StageOrder \o <<"Done">>
    /\ threads[2].outcome = "NoOp"
    /\ threads[2].stages = <<"Validating", "Comparing", "Done">>

\* C18 as stated: a snapshot that backup steps have made holds, once no copy
\* into it is under way, what the document held when one of those steps
\* copied it.
C18_SnapshotProvenance ==
    \A n \in DOMAIN log.copied :
        (\A t \in Threads : ~(threads[t].pc = "copy" /\ threads[t].name = n))
            => Backups[n] \in log.copied[n].held

====
